---- MODULE Spec2Model ----
(***************************************************************************)
(* Model of the crawler of src/app: the credential pool (TokenManager) and *)
(* the rate-limited client (safe_get) of github.py, the paginator          *)
(* (get_active_github_users), the orchestrator loop (run) with its         *)
(* checkpoint store (FetchState), the enrichment tasks (process_user) of   *)
(* main.py with get_country_code of gpt_location.py, and their dedup and   *)
(* insert step over the users table of models.py.                          *)
(***************************************************************************)
EXTENDS Integers, Sequences, FiniteSets, TLC

(***************************************************************************)
(* Bounds of the model.                                                    *)
(***************************************************************************)
NumTokens == 3        \* credentials in GITHUB_TOKENS
MaxResetAhead == 3    \* X-RateLimit-Reset is at most this far after the clock
MaxRuns == 2          \* invocations of run, one after the other

(***************************************************************************)
(* Program constants.                                                      *)
(***************************************************************************)
max_retries == 3          \* safe_get(url, max_retries=3)
RateLimitSleep == 60      \* time.sleep(60) on a 403/429 without reset header
per_page == 100           \* users?since={since}&per_page=100
SinceStep == 100          \* next_since = since + 100
FullPage == 100           \* if len(users) < 100: break
NoCursor == -1            \* None, and the unbound local "since": cursors are >= 0

Callers == {"c1", "c2"}   \* threads that may call safe_get
EventLoop == {"c1"}       \* the thread of the event loop, the caller in main.py
NoCaller == "none"
TokenIndices == 0 .. (NumTokens - 1)
RateLimitStatuses == {403, 429}
PassStatuses == {200, 404, 500}
NoResponse == 0           \* requests.get raised: there is no status code

(***************************************************************************)
(* Time.  The code reads the clock (int(time.time())) only to compare it   *)
(* with stored times and to compute sleep lengths, so every stored time is *)
(* kept relative to the clock: a value t stands for the instant clock + t. *)
(* A second passing (Tick) lowers every stored time by one.  A reset time  *)
(* more than a second in the past stays at -1 and a wake-up time in the    *)
(* past stays at 0: the code cannot tell such times apart.  Reset times    *)
(* are epoch seconds, so the absolute value of a recorded reset is > 0.    *)
(***************************************************************************)
current_time == 0        \* the clock read by _switch_to_available_token

VARIABLES
    current_token_index,  \* TokenManager.current_token_index
    rate_limited_tokens,  \* TokenManager.rate_limited_tokens: index -> reset
    lock,                 \* holder of TokenManager.lock, or NoCaller
    pc,                   \* each caller's position in safe_get
    attempt,              \* the loop variable of safe_get
    tokenUsed,            \* index of the token put in the request's headers
    reset,                \* X-RateLimit-Reset of the response being handled
    wakeAt,               \* end of the time.sleep a caller is in
    result,               \* what safe_get returned or raised
    nRateLimited,         \* 403/429 responses received in the current call
    nExceptions,          \* connection-level exceptions in the current call
    nRequests,            \* requests.get calls made in the current call
    waited,               \* the last mark_rate_limited of the call had to sleep
    lastStatus,           \* status of the response the call received last
    slept                 \* seconds spent so far in the call's last time.sleep

clientVars == <<current_token_index, rate_limited_tokens, lock, pc, attempt,
                tokenUsed, reset, wakeAt, result, nRateLimited, nExceptions,
                nRequests, waited, lastStatus, slept>>

VARIABLES
    listing,        \* the upstream directory: user IDs in increasing order
    fetch_state,    \* since_value of the rows of fetch_state with key github_since
    runPc,          \* position of run()
    since,          \* local "since" of run (NoCursor while unbound)
    users,          \* the page being processed (the IDs of its users)
    next_since,     \* second component of get_active_github_users' result
    finished,       \* process_user tasks of the page that have ended
    anyErrored,     \* some task of the page ended in an error
    anyOk,          \* some task of the page ended without error
    outcome,        \* the dict run returned last
    handed,         \* IDs of the users passed to process_user so far
    pageLens,       \* lengths of the pages this run got, in order
    startSince,     \* the cursor this run loaded
    fetchFailed,    \* get_active_github_users raised in this run
    runCount,       \* runs started
    faulted,        \* an exception handler of run has run in this run
    badPayload,     \* a listing response of this run was no list
    pattern,        \* what the enrichment of each entity yields
    prevClean,      \* the run before this one ended at the end of the listing
    prevTable,      \* the rows of table users when this run began
    prevFetchState  \* the checkpoint rows when this run began

runVars == <<listing, fetch_state, runPc, since, users, next_since, finished,
             anyErrored, anyOk, outcome, handed, pageLens, startSince,
             fetchFailed, runCount, faulted, badPayload, pattern, prevClean,
             prevTable, prevFetchState>>

VARIABLES
    users_table,    \* the rows of table users
    next_id,        \* the autoincrement of users.id
    taskPc,         \* position of each process_user task
    taskUser,       \* the task's username and resolved email
    taskResult,     \* how the task's last run ended
    stats           \* per instance, the stats of run(): total_fetched, saved,
                    \* skipped_no_email, errors and the entries tallied in
                    \* stats["countries"]

storeVars == <<users_table, next_id, taskPc, taskUser, taskResult, stats>>

VARIABLES
    worlds,             \* per world: users table, tasks, statistics
    faultAt,            \* the call of FaultyTask that raises in world "faulty"
    LOCATION_PROVIDER   \* os.getenv("LOCATION_PROVIDER", "nominatim")

batchVars == <<worlds, faultAt, LOCATION_PROVIDER>>

VARIABLES
    repos_res,      \* the upstream's answers to get_email_from_commits
    scanPc,         \* "call", "returned" or "raised"
    fallback        \* the <<name, email>> get_email_from_commits returned

scanVars == <<repos_res, scanPc, fallback>>

VARIABLES
    directory,      \* the upstream listing the overlapping runs page through
    stored,         \* the since_value rows of fetch_state they share
    invocation      \* per invocation of run: position, since, next_since and
                    \* the length of the page in its batch

overlapVars == <<directory, stored, invocation>>

vars == <<clientVars, runVars, storeVars, batchVars, scanVars, overlapVars>>

Max(a, b) == IF a >= b THEN a ELSE b

\* a backoff doubling the attempt number instead of raising 2 to it
TwiceAttempt(n) == 2 * n

\* 2 ** attempt, for the attempts range(max_retries) yields
Pow2(n) == IF n = 0 THEN 1 ELSE IF n = 1 THEN 2 ELSE IF n = 2 THEN 4 ELSE 8

\* a stored reset time, one second later
AgeReset(t) == Max(t - 1, -1)

\* a stored wake-up time, one second later
AgeWake(t) == Max(t - 1, 0)

\* min(self.rate_limited_tokens.values())
EarliestReset(rlt) ==
    CHOOSE r \in {rlt[i] : i \in DOMAIN rlt} : \A j \in DOMAIN rlt : r <= rlt[j]

\* the availability test taking a reset one second ahead for elapsed
AvailableIndicesEarly(rlt) ==
    {i \in TokenIndices : i \notin DOMAIN rlt \/ rlt[i] <= current_time + 1}

\* first loop of _switch_to_available_token: the indices without a record
\* (get(i, 0) is 0) or whose reset time is not after current_time
AvailableIndices(rlt) ==
    {i \in TokenIndices : i \notin DOMAIN rlt \/ rlt[i] <= current_time}

\* the same loop's deletions: an available index that has a record loses it
ClearAvailable(rlt) ==
    [i \in {j \in DOMAIN rlt : j \notin AvailableIndices(rlt)} |-> rlt[i]]

\* a selection of the lowest available index
NextAvailableLowest(current, available) ==
    CHOOSE i \in available : \A j \in available : i <= j

\* second loop: the first available index met from current + 1, cyclically
\* (the last one met is the current index itself); available_indices[0]
\* otherwise
NextAvailable(current, available) ==
    LET hits == {i \in 0 .. (NumTokens - 1) :
                    ((current + i + 1) % NumTokens) \in available}
    IN  IF hits # {}
        THEN (current + (CHOOSE i \in hits : \A j \in hits : i <= j) + 1) % NumTokens
        ELSE CHOOSE i \in available : \A j \in available : i <= j

\* self.rate_limited_tokens[self.current_token_index] = reset_time
RecordReset(rlt, current, reset_time) ==
    [i \in DOMAIN rlt \cup {current} |-> IF i = current THEN reset_time ELSE rlt[i]]

\* "continue" that leaves the attempt counter of the for loop as it is
ContinueUncounted(c) ==
    /\ attempt' = attempt
    /\ pc' = [pc EXCEPT ![c] = "headers"]
    /\ result' = result

\* "continue" in the for loop of safe_get: the next attempt, or, when
\* range(max_retries) is used up, the raise after the loop
Continue(c) ==
    /\ attempt' = [attempt EXCEPT ![c] = @ + 1]
    /\ IF attempt[c] + 1 < max_retries
       THEN /\ pc' = [pc EXCEPT ![c] = "headers"]
            /\ result' = result
       ELSE /\ pc' = [pc EXCEPT ![c] = "raised"]
            /\ result' = [result EXCEPT ![c] = "exhausted"]

\* token_manager = TokenManager(), and the threads in threads ready to call
\* safe_get; a thread at "off" never calls
InitClientOf(threads) ==
    /\ current_token_index = 0
    /\ rate_limited_tokens = << >>
    /\ lock = NoCaller
    /\ pc = [c \in Callers |-> IF c \in threads THEN "idle" ELSE "off"]
    /\ attempt = [c \in Callers |-> 0]
    /\ tokenUsed = [c \in Callers |-> 0]
    /\ reset = [c \in Callers |-> 0]
    /\ wakeAt = [c \in Callers |-> 0]
    /\ result = [c \in Callers |-> "none"]
    /\ nRateLimited = [c \in Callers |-> 0]
    /\ nExceptions = [c \in Callers |-> 0]
    /\ nRequests = [c \in Callers |-> 0]
    /\ waited = [c \in Callers |-> FALSE]
    /\ lastStatus = [c \in Callers |-> NoResponse]
    /\ slept = [c \in Callers |-> 0]

\* the client called from the event loop only
InitClient == InitClientOf(EventLoop)

\* the client called from two threads
InitClientPair == InitClientOf(Callers)

\* a caller enters safe_get
SafeGetCall(c) ==
    /\ pc[c] = "idle"
    /\ pc' = [pc EXCEPT ![c] = "headers"]
    /\ attempt' = [attempt EXCEPT ![c] = 0]
    /\ UNCHANGED <<current_token_index, rate_limited_tokens, lock, tokenUsed,
                   reset, wakeAt, result, nRateLimited, nExceptions, nRequests,
                   waited, lastStatus, slept>>
    /\ UNCHANGED <<runVars, storeVars, batchVars, scanVars, overlapVars>>

\* token_manager.get_headers(): the current token, read under the lock
GetHeaders(c) ==
    /\ pc[c] = "headers"
    /\ lock = NoCaller
    /\ tokenUsed' = [tokenUsed EXCEPT ![c] = current_token_index]
    /\ pc' = [pc EXCEPT ![c] = "request"]
    /\ UNCHANGED <<current_token_index, rate_limited_tokens, lock, attempt,
                   reset, wakeAt, result, nRateLimited, nExceptions, nRequests,
                   waited, lastStatus, slept>>
    /\ UNCHANGED <<runVars, storeVars, batchVars, scanVars, overlapVars>>

\* a client taking a 5xx answer for a failed attempt: back off and try again
RespondRetriesServerError(c, status) ==
    /\ pc[c] = "request"
    /\ status \in PassStatuses
    /\ nRequests' = [nRequests EXCEPT ![c] = @ + 1]
    /\ lastStatus' = [lastStatus EXCEPT ![c] = status]
    /\ IF status >= 500
       THEN /\ wakeAt' = [wakeAt EXCEPT ![c] = current_time + Pow2(attempt[c])]
            /\ slept' = [slept EXCEPT ![c] = 0]
            /\ pc' = [pc EXCEPT ![c] = "sleep"]
            /\ result' = result
       ELSE /\ pc' = [pc EXCEPT ![c] = "returned"]
            /\ result' = [result EXCEPT ![c] = status]
            /\ UNCHANGED <<wakeAt, slept>>
    /\ UNCHANGED <<current_token_index, rate_limited_tokens, lock, attempt,
                   tokenUsed, reset, nRateLimited, nExceptions, waited>>
    /\ UNCHANGED <<runVars, storeVars, batchVars, scanVars, overlapVars>>

\* requests.get answers with a status that is not 403/429: returned as is
Respond(c, status) ==
    /\ pc[c] = "request"
    /\ status \in PassStatuses
    /\ nRequests' = [nRequests EXCEPT ![c] = @ + 1]
    /\ pc' = [pc EXCEPT ![c] = "returned"]
    /\ result' = [result EXCEPT ![c] = status]
    /\ lastStatus' = [lastStatus EXCEPT ![c] = status]
    /\ UNCHANGED <<current_token_index, rate_limited_tokens, lock, attempt,
                   tokenUsed, reset, wakeAt, nRateLimited, nExceptions, waited,
                   slept>>
    /\ UNCHANGED <<runVars, storeVars, batchVars, scanVars, overlapVars>>

\* 403/429 with X-RateLimit-Reset: mark_rate_limited(reset) is called next
RespondRateLimitedReset(c, status, r) ==
    /\ pc[c] = "request"
    /\ status \in RateLimitStatuses
    /\ nRequests' = [nRequests EXCEPT ![c] = @ + 1]
    /\ nRateLimited' = [nRateLimited EXCEPT ![c] = @ + 1]
    /\ reset' = [reset EXCEPT ![c] = r]
    /\ pc' = [pc EXCEPT ![c] = "mark"]
    /\ lastStatus' = [lastStatus EXCEPT ![c] = status]
    /\ UNCHANGED <<current_token_index, rate_limited_tokens, lock, attempt,
                   tokenUsed, wakeAt, result, nExceptions, waited, slept>>
    /\ UNCHANGED <<runVars, storeVars, batchVars, scanVars, overlapVars>>

\* 403/429 without the header: time.sleep(60), then continue
RespondRateLimitedNoReset(c, status) ==
    /\ pc[c] = "request"
    /\ status \in RateLimitStatuses
    /\ nRequests' = [nRequests EXCEPT ![c] = @ + 1]
    /\ nRateLimited' = [nRateLimited EXCEPT ![c] = @ + 1]
    /\ wakeAt' = [wakeAt EXCEPT ![c] = current_time + RateLimitSleep]
    /\ pc' = [pc EXCEPT ![c] = "sleep"]
    /\ lastStatus' = [lastStatus EXCEPT ![c] = status]
    /\ slept' = [slept EXCEPT ![c] = 0]
    /\ UNCHANGED <<current_token_index, rate_limited_tokens, lock, attempt,
                   tokenUsed, reset, result, nExceptions, waited>>
    /\ UNCHANGED <<runVars, storeVars, batchVars, scanVars, overlapVars>>

\* requests.get raises: time.sleep(2 ** attempt) and continue, or re-raise
\* on the last attempt
RequestException(c) ==
    /\ pc[c] = "request"
    /\ nRequests' = [nRequests EXCEPT ![c] = @ + 1]
    /\ nExceptions' = [nExceptions EXCEPT ![c] = @ + 1]
    /\ lastStatus' = [lastStatus EXCEPT ![c] = NoResponse]
    /\ IF attempt[c] < max_retries - 1
       THEN /\ wakeAt' = [wakeAt EXCEPT ![c] = current_time + Pow2(attempt[c])]
            /\ slept' = [slept EXCEPT ![c] = 0]
            /\ pc' = [pc EXCEPT ![c] = "sleep"]
            /\ result' = result
       ELSE /\ wakeAt' = wakeAt
            /\ slept' = slept
            /\ pc' = [pc EXCEPT ![c] = "raised"]
            /\ result' = [result EXCEPT ![c] = "exception"]
    /\ UNCHANGED <<current_token_index, rate_limited_tokens, lock, attempt,
                   tokenUsed, reset, nRateLimited, waited>>
    /\ UNCHANGED <<runVars, storeVars, batchVars, scanVars, overlapVars>>

\* the time.sleep of safe_get ends: continue
SleepDone(c) ==
    /\ pc[c] = "sleep"
    /\ wakeAt[c] <= current_time
    /\ Continue(c)
    /\ UNCHANGED <<current_token_index, rate_limited_tokens, lock, tokenUsed,
                   reset, wakeAt, nRateLimited, nExceptions, nRequests, waited,
                   lastStatus, slept>>
    /\ UNCHANGED <<runVars, storeVars, batchVars, scanVars, overlapVars>>

\* a switch that, woken from its sleep, returns with the pool as it is
\* instead of looking for an available token again
SwitchWithoutRecheck(c, rlt, hadToWait) ==
    LET available == AvailableIndices(rlt)
    IN  IF hadToWait
        THEN /\ rate_limited_tokens' = rlt
             /\ lock' = NoCaller
             /\ UNCHANGED <<current_token_index, waited, wakeAt>>
             /\ Continue(c)
        ELSE /\ rate_limited_tokens' = ClearAvailable(rlt)
             /\ IF available = {}
                THEN /\ wakeAt' = [wakeAt EXCEPT ![c] =
                           current_time + Max(EarliestReset(rlt) - current_time, 0) + 1]
                     /\ lock' = c
                     /\ pc' = [pc EXCEPT ![c] = "wait"]
                     /\ waited' = [waited EXCEPT ![c] = TRUE]
                     /\ UNCHANGED <<current_token_index, attempt, result>>
                ELSE /\ current_token_index' =
                           NextAvailable(current_token_index, available)
                     /\ lock' = NoCaller
                     /\ waited' = [waited EXCEPT ![c] = hadToWait]
                     /\ wakeAt' = wakeAt
                     /\ Continue(c)

\* _switch_to_available_token on the records rlt, run by caller c inside
\* mark_rate_limited's "with self.lock": select a token and return to the
\* loop of safe_get, or time.sleep(wait_time + 1) with the lock held
SwitchToAvailableToken(c, rlt, hadToWait) ==
    LET available == AvailableIndices(rlt)
    IN  /\ rate_limited_tokens' = ClearAvailable(rlt)
        /\ IF available = {}
           THEN /\ wakeAt' = [wakeAt EXCEPT ![c] =
                      current_time + Max(EarliestReset(rlt) - current_time, 0) + 1]
                /\ lock' = c
                /\ pc' = [pc EXCEPT ![c] = "wait"]
                /\ waited' = [waited EXCEPT ![c] = TRUE]
                /\ UNCHANGED <<current_token_index, attempt, result>>
           ELSE /\ current_token_index' =
                      NextAvailable(current_token_index, available)
                /\ lock' = NoCaller
                /\ waited' = [waited EXCEPT ![c] = hadToWait]
                /\ wakeAt' = wakeAt
                /\ Continue(c)

\* mark_rate_limited(reset): record it for the current index, then switch
MarkRateLimited(c) ==
    /\ pc[c] = "mark"
    /\ lock = NoCaller
    /\ SwitchToAvailableToken(
           c, RecordReset(rate_limited_tokens, current_token_index, reset[c]), FALSE)
    /\ reset' = [reset EXCEPT ![c] = 0]
    /\ UNCHANGED <<tokenUsed, nRateLimited, nExceptions, nRequests, lastStatus,
                   slept>>
    /\ UNCHANGED <<runVars, storeVars, batchVars, scanVars, overlapVars>>

\* time.sleep(wait_time + 1) ends: the recursive call of the switch
SwitchRetry(c) ==
    /\ pc[c] = "wait"
    /\ lock = c
    /\ wakeAt[c] <= current_time
    /\ SwitchToAvailableToken(c, rate_limited_tokens, TRUE)
    /\ UNCHANGED <<tokenUsed, reset, nRateLimited, nExceptions, nRequests,
                   lastStatus, slept>>
    /\ UNCHANGED <<runVars, storeVars, batchVars, scanVars, overlapVars>>

\* the caller takes the response or the exception; the call's locals go
SafeGetDone(c) ==
    /\ pc[c] \in {"returned", "raised"}
    /\ pc' = [pc EXCEPT ![c] = "idle"]
    /\ attempt' = [attempt EXCEPT ![c] = 0]
    /\ result' = [result EXCEPT ![c] = "none"]
    /\ nRateLimited' = [nRateLimited EXCEPT ![c] = 0]
    /\ nExceptions' = [nExceptions EXCEPT ![c] = 0]
    /\ nRequests' = [nRequests EXCEPT ![c] = 0]
    /\ waited' = [waited EXCEPT ![c] = FALSE]
    /\ lastStatus' = [lastStatus EXCEPT ![c] = NoResponse]
    /\ slept' = [slept EXCEPT ![c] = 0]
    /\ UNCHANGED <<current_token_index, rate_limited_tokens, lock, tokenUsed,
                   reset, wakeAt>>
    /\ UNCHANGED <<runVars, storeVars, batchVars, scanVars, overlapVars>>

\* a second passes
Tick ==
    /\ rate_limited_tokens' =
           [i \in DOMAIN rate_limited_tokens |-> AgeReset(rate_limited_tokens[i])]
    /\ reset' = [c \in Callers |->
                    IF pc[c] = "mark" THEN AgeReset(reset[c]) ELSE reset[c]]
    /\ wakeAt' = [c \in Callers |-> AgeWake(wakeAt[c])]
    /\ slept' = [c \in Callers |->
                    IF pc[c] = "sleep" /\ wakeAt[c] > current_time
                    THEN slept[c] + 1 ELSE slept[c]]
    /\ UNCHANGED <<current_token_index, lock, pc, attempt, tokenUsed, result,
                   nRateLimited, nExceptions, nRequests, waited, lastStatus>>
    /\ UNCHANGED <<runVars, storeVars, batchVars, scanVars, overlapVars>>


NextClient ==
    \/ Tick
    \/ \E c \in Callers :
        \/ SafeGetCall(c)
        \/ GetHeaders(c)
        \/ \E status \in PassStatuses : Respond(c, status)
        \/ \E status \in RateLimitStatuses, d \in 0 .. MaxResetAhead :
               RespondRateLimitedReset(c, status, current_time + d)
        \/ \E status \in RateLimitStatuses : RespondRateLimitedNoReset(c, status)
        \/ RequestException(c)
        \/ SleepDone(c)
        \/ MarkRateLimited(c)
        \/ SwitchRetry(c)
        \/ SafeGetDone(c)

\* two threads in safe_get, with answers 200 and 403 with a reset time
NextPair ==
    \/ Tick
    \/ \E c \in Callers :
        \/ SafeGetCall(c)
        \/ GetHeaders(c)
        \/ Respond(c, 200)
        \/ \E d \in {1, MaxResetAhead} :
               RespondRateLimitedReset(c, 403, current_time + d)
        \/ MarkRateLimited(c)
        \/ SwitchRetry(c)
        \/ SafeGetDone(c)

\* the steps safe_get takes by itself once called: the statements of the
\* calling thread, requests.get ending (timeout=30) in a response or an
\* exception, and the sleeps ending
SafeGetStep(c) ==
    \/ GetHeaders(c)
    \/ \E status \in PassStatuses : Respond(c, status)
    \/ \E status \in RateLimitStatuses, d \in 0 .. MaxResetAhead :
           RespondRateLimitedReset(c, status, current_time + d)
    \/ \E status \in RateLimitStatuses : RespondRateLimitedNoReset(c, status)
    \/ RequestException(c)
    \/ SleepDone(c)
    \/ MarkRateLimited(c)
    \/ SwitchRetry(c)

(***************************************************************************)
(* Dedup and persistence: the end of process_user, from the pre-check to   *)
(* the commit, by tasks of orchestrator instances that share the database. *)
(* The tasks of one instance run on one event loop and there is no await   *)
(* between a task's pre-check and its commit, so no other task of the same *)
(* instance takes a step in between; tasks of other instances do.          *)
(***************************************************************************)
Tasks == {"a1", "a2", "b1"}
InstanceOf(t) == IF t = "b1" THEN "B" ELSE "A"
Instances == {"A", "B"}
Usernames == {"u1", "u2"}
Emails == {"e1", "e2"}
NoUser == [git_username |-> "none", email |-> "none"]

\* a unique constraint that was never created
NoUniqueConstraint(table, username) == FALSE

\* uq_user_git_username / unique=True on users.git_username, checked by the
\* database when the insert is committed
UniqueViolation(table, username) ==
    \E row \in table : row.git_username = username

\* a pre-check on the handle alone
ExistingUserByHandle(table, username, email) ==
    \E row \in table : row.git_username = username

\* the pre-check query: a row with this git_username or this email
ExistingUser(table, username, email) ==
    \E row \in table : row.git_username = username \/ row.email = email

\* the event loop of t's instance is inside another task's pre-check/commit
LoopBusy(t) ==
    \E o \in Tasks \ {t} : InstanceOf(o) = InstanceOf(t) /\ taskPc[o] = "insert"

\* stats = {...} at the start of run
NoStats ==
    [total_fetched |-> 0, saved |-> 0, errors |-> 0, skipped_no_email |-> 0,
     countries |-> 0]

InitStore ==
    /\ users_table = {}
    /\ next_id = 1
    /\ taskPc = [t \in Tasks |-> "idle"]
    /\ taskUser = [t \in Tasks |-> NoUser]
    /\ taskResult = [t \in Tasks |-> "none"]
    /\ stats = [i \in Instances |-> NoStats]

\* process_user reaches the pre-check with an email for its user
TaskResolved(t, username, email) ==
    /\ taskPc[t] = "idle"
    /\ ~LoopBusy(t)
    /\ taskPc' = [taskPc EXCEPT ![t] = "precheck"]
    /\ taskUser' = [taskUser EXCEPT ![t] =
                       [git_username |-> username, email |-> email]]
    /\ taskResult' = [taskResult EXCEPT ![t] = "none"]
    /\ UNCHANGED <<users_table, next_id, stats>>
    /\ UNCHANGED <<clientVars, runVars, batchVars, scanVars, overlapVars>>

\* existing_user = query(...).first(); if existing_user: return
PreCheck(t) ==
    /\ taskPc[t] = "precheck"
    /\ ~LoopBusy(t)
    /\ IF ExistingUser(users_table, taskUser[t].git_username, taskUser[t].email)
       THEN /\ taskPc' = [taskPc EXCEPT ![t] = "idle"]
            /\ taskResult' = [taskResult EXCEPT ![t] = "exists"]
       ELSE /\ taskPc' = [taskPc EXCEPT ![t] = "insert"]
            /\ taskResult' = taskResult
    /\ UNCHANGED <<users_table, next_id, taskUser, stats>>
    /\ UNCHANGED <<clientVars, runVars, batchVars, scanVars, overlapVars>>

\* stats["saved"] += 1 and the entry of stats["countries"]
Saved(s) == [s EXCEPT !.saved = @ + 1, !.countries = @ + 1]

\* a commit whose IntegrityError is handled like any other exception
InsertUserCountsError(t) ==
    /\ taskPc[t] = "insert"
    /\ IF UniqueViolation(users_table, taskUser[t].git_username)
       THEN /\ taskResult' = [taskResult EXCEPT ![t] = "integrity_error"]
            /\ stats' = [stats EXCEPT ![InstanceOf(t)].errors = 1]
            /\ UNCHANGED <<users_table, next_id>>
       ELSE /\ users_table' = users_table \cup
                   {[id |-> next_id,
                     git_username |-> taskUser[t].git_username,
                     email |-> taskUser[t].email]}
            /\ next_id' = next_id + 1
            /\ taskResult' = [taskResult EXCEPT ![t] = "saved"]
            /\ stats' = [stats EXCEPT ![InstanceOf(t)] = Saved(@)]
    /\ taskPc' = [taskPc EXCEPT ![t] = "idle"]
    /\ UNCHANGED taskUser
    /\ UNCHANGED <<clientVars, runVars, batchVars, scanVars, overlapVars>>

\* add(new_user); commit(): the row is stored and counted, or the database
\* raises IntegrityError and the handler rolls back and returns
InsertUser(t) ==
    /\ taskPc[t] = "insert"
    /\ IF UniqueViolation(users_table, taskUser[t].git_username)
       THEN /\ taskResult' = [taskResult EXCEPT ![t] = "integrity_error"]
            /\ UNCHANGED <<users_table, next_id, stats>>
       ELSE /\ users_table' = users_table \cup
                   {[id |-> next_id,
                     git_username |-> taskUser[t].git_username,
                     email |-> taskUser[t].email]}
            /\ next_id' = next_id + 1
            /\ taskResult' = [taskResult EXCEPT ![t] = "saved"]
            /\ stats' = [stats EXCEPT ![InstanceOf(t)] = Saved(@)]
    /\ taskPc' = [taskPc EXCEPT ![t] = "idle"]
    /\ UNCHANGED taskUser
    /\ UNCHANGED <<clientVars, runVars, batchVars, scanVars, overlapVars>>

NextStore ==
    \E t \in Tasks :
        \/ \E username \in Usernames, email \in Emails :
               TaskResolved(t, username, email)
        \/ PreCheck(t)
        \/ InsertUser(t)

(***************************************************************************)
(* One page batch of run(): the process_user tasks of main.py with the     *)
(* enrichment of github.py and get_country_code of gpt_location.py.  A     *)
(* task runs without interruption up to an await that suspends it (a call  *)
(* of the geocoding provider) and from there to its end; the tasks of the  *)
(* batch interleave at these points.  To compare a batch with the same     *)
(* batch in which one task faults, the batch can be run twice side by side *)
(* on the same upstream answers: as it is ("plain") and with a fault       *)
(* injected into the task FaultyTask ("faulty").                           *)
(***************************************************************************)
NoneValue == "None"                  \* Python's None
retries == 2                         \* get_country_code(location_str, retries=2)
BatchTasks == {"p1", "p2"}
Worlds == {"plain", "faulty"}
FaultyTask == "p1"
FaultPoints == {"details", "commits", "query", "commit"}
GeocodingProviders == {"nominatim", "opencage", "google"}
LLMProviders == {"claude", "gemini", "groq"}
Providers == {"nominatim", "groq", "other"}
CountryCodes == {"NO"}               \* the 2-letter codes a geocoder answers
TimezoneOffsets == {"+0300"}         \* matches of [+-]\d{4} in a signed payload

\* user_data.get("login")
LoginOf(t) == IF t = "p1" THEN "u1" ELSE "u2"

\* location texts, letter by letter
Oslo == <<"O", "s", "l", "o">>
Iran == <<"I", "r", "a", "n">>
Cairo == <<"C", "a", "i", "r", "o">>
Locations == {<< >>, Oslo, Iran, Cairo}

\* entries of the gazetteer of gpt_location.py
US_KEYWORDS == {<<"i", "r", "a", "n">>, <<"i", "r">>}
US_STATES == {<<"t", "e", "h", "r", "a", "n">>}
US_STATE_CODES == {<<"t", "e", "h">>}

\* str.lower(), on the letters the texts above use
LowerChar(ch) ==
    CASE ch = "O" -> "o" [] ch = "I" -> "i" [] ch = "C" -> "c" [] OTHER -> ch

Lower(text) == [i \in 1 .. Len(text) |-> LowerChar(text[i])]

\* keyword in location_lower
Contains(text, keyword) ==
    \E i \in 1 .. Len(text) :
        /\ i + Len(keyword) - 1 <= Len(text)
        /\ SubSeq(text, i, i + Len(keyword) - 1) = keyword

\* \w of the regular expression, on the letters used here
WordChar(ch) == ch \notin {" ", ",", "."}

\* re.findall(r'\b\w+\b', location_lower)
Words(text) ==
    {SubSeq(text, i, j) : <<i, j>> \in
        {p \in (1 .. Len(text)) \X (1 .. Len(text)) :
            /\ p[1] <= p[2]
            /\ \A k \in p[1] .. p[2] : WordChar(text[k])
            /\ p[1] = 1 \/ ~WordChar(text[p[1] - 1])
            /\ p[2] = Len(text) \/ ~WordChar(text[p[2] + 1])}}

\* get_country_code returns "" before any provider is called
FastPath(location_str) ==
    \/ \E keyword \in US_KEYWORDS : Contains(Lower(location_str), keyword)
    \/ \E word \in Words(Lower(location_str)) :
           word \in US_STATES \/ word \in US_STATE_CODES

\* country_code.upper()
Upper(code) == IF code = "no" THEN "NO" ELSE code

\* one provider call more than the loop of get_country_code makes
MaxCallsOneMore(provider) == retries + 1

\* awaited provider calls get_country_code can make: the loop over
\* range(retries) for a geocoding provider, none for an LLM provider
\* (_get_country_code_geocoding returns None at once), one nominatim call
\* for any other value of LOCATION_PROVIDER
MaxCalls(provider) ==
    IF provider \in GeocodingProviders THEN retries
    ELSE IF provider \in LLMProviders THEN 0
    ELSE 1

\* a lookup of the timezone whatever the location
NeedsTimezoneAlways(location) == TRUE

\* "if not location": the timezone is looked up in the commits
NeedsTimezone(location) == location = << >>

\* an email check that lets every entity through
NoEmailNever(email) == FALSE

\* "if not email"
NoEmail(email) == email = NoneValue

\* timezone if timezone else country_code
country_or_timezone(timezone, country_code) ==
    IF timezone # NoneValue /\ timezone # "" THEN timezone ELSE country_code

\* the locals of a process_user task that has not started
NoLocals ==
    [email |-> NoneValue, name |-> NoneValue, location |-> << >>,
     country_code |-> NoneValue, timezone |-> NoneValue, calls |-> 0,
     tzLooked |-> FALSE, ccLooked |-> FALSE]

\* models.User(name, location, email, git_username, country); contacted and
\* responded take their default
NewUser(id, username, l) ==
    [id |-> id, name |-> l.name, location |-> l.location, email |-> l.email,
     git_username |-> username,
     country |-> country_or_timezone(l.timezone, l.country_code),
     contacted |-> FALSE, responded |-> FALSE]

\* rows the table may hold before the run: one with the handle of the first
\* entity of the page, one with an email an entity of the page may resolve to
OldRowSameHandle ==
    [id |-> 1, name |-> "old", location |-> Oslo, email |-> "e0",
     git_username |-> "u1", country |-> "NO",
     contacted |-> TRUE, responded |-> FALSE]

OldRowSameEmail ==
    [id |-> 1, name |-> "old", location |-> << >>, email |-> "e1",
     git_username |-> "u0", country |-> NoneValue,
     contacted |-> TRUE, responded |-> TRUE]

InitialTables == {{}, {OldRowSameHandle}, {OldRowSameEmail}}

\* the answers of the upstream to the calls of one task; an answer to a
\* call the task does not make is left at None
TaskInputs ==
    {in \in [details : {"raise", "message", "ok"},
             profile_email : {"e1", NoneValue},
             location : Locations,
             commit_email : Emails \cup {NoneValue, "raise"},
             timezone : TimezoneOffsets \cup {NoneValue, "raise"}] :
        /\ in.details # "ok" =>
               in.profile_email = NoneValue /\ in.location = << >>
        /\ (in.details # "ok" \/ in.profile_email # NoneValue) =>
               in.commit_email = NoneValue
        /\ (in.details # "ok" \/ in.location # << >>
                \/ in.commit_email = "raise") =>
               in.timezone = NoneValue}

\* the answers used to compare a batch with its faulty twin
TwinInputs ==
    {in \in TaskInputs :
        /\ in.details = "ok"
        /\ in.location \in {<< >>, Oslo}
        /\ in.commit_email # "raise"
        /\ in.timezone = NoneValue}

DbAnswers == {"ok", "query_raises", "commit_raises"}

\* the answers with the fault injected at point
WithFault(in, point) ==
    CASE point = "details" -> [in EXCEPT !.details = "raise"]
      [] point = "commits" ->
             [in EXCEPT !.commit_email = "raise", !.timezone = "raise"]
      [] OTHER -> in

DbWithFault(db, point) ==
    CASE point = "query" -> "query_raises"
      [] point = "commit" -> "commit_raises"
      [] OTHER -> db

InitWorld(table) ==
    [table0 |-> table,
     table |-> table,
     next_id |-> Cardinality(table) + 1,
     pc |-> [t \in BatchTasks |-> "pending"],
     loc |-> [t \in BatchTasks |-> NoLocals],
     outcome |-> [t \in BatchTasks |-> "none"],
     stats |-> [saved |-> 0, errors |-> 0, skipped_no_email |-> 0],
     commits |-> 0,
     fault |-> [t \in BatchTasks |-> "none"]]

\* the task ends with outcome o and locals l
Ends(W, t, l, o) ==
    [W EXCEPT !.pc[t] = "done", !.loc[t] = l, !.outcome[t] = o]

\* an except clause that does not count the error
ErroredUncounted(W, t) == Ends(W, t, NoLocals, "error")

\* stats["errors"] += 1, in "except Exception" and after a failed
\* get_user_details; the locals of the task go
Errored(W, t) ==
    [Ends(W, t, NoLocals, "error") EXCEPT !.stats.errors = @ + 1]

\* the step of process_user that ended the task in an error: the failed
\* get_user_details or the step whose exception reached "except Exception"
RaisedIn(W, t, step) == [W EXCEPT !.fault[t] = step]

\* the rows written since the batch began
Written(W) == W.table \ W.table0

\* the row of the users table with the handle of task t
RowOf(W, t) == CHOOSE row \in W.table : row.git_username = LoginOf(t)

\* asyncio.gather returns when every task of the batch has ended
BatchComplete(W) == \A t \in BatchTasks : W.pc[t] = "done"

\* from "if not email" to the end of process_user
Finish(W, t, l, db) ==
    IF NoEmail(l.email)
    THEN [Ends(W, t, l, "skipped_no_email") EXCEPT
              !.stats.skipped_no_email = @ + 1]
    ELSE IF db = "query_raises"
    THEN RaisedIn(Errored(W, t), t, "query")
    ELSE IF ExistingUser(W.table, LoginOf(t), l.email)
    THEN Ends(W, t, l, "exists")
    ELSE IF db = "commit_raises"
    THEN [RaisedIn(Errored(W, t), t, "commit") EXCEPT !.commits = @ + 1]
    ELSE IF UniqueViolation(W.table, LoginOf(t))
    THEN [Ends(W, t, l, "duplicate") EXCEPT !.commits = @ + 1]
    ELSE [Ends(W, t, l, "saved") EXCEPT
              !.commits = @ + 1,
              !.table = @ \cup {NewUser(W.next_id, LoginOf(t), l)},
              !.next_id = @ + 1,
              !.stats.saved = @ + 1]

\* the location step of process_user up to the first provider call
Locate(W, t, l, in, db, provider) ==
    IF NeedsTimezone(l.location)
    THEN IF in.timezone = "raise"
         THEN RaisedIn(Errored(W, t), t,
                       IF NoEmail(l.email) THEN "timezone_no_email"
                       ELSE "timezone")
         ELSE Finish(W, t, [l EXCEPT !.tzLooked = TRUE,
                                     !.timezone = in.timezone], db)
    ELSE IF FastPath(l.location)
    THEN Finish(W, t, [l EXCEPT !.ccLooked = TRUE, !.country_code = ""], db)
    ELSE IF MaxCalls(provider) = 0
    THEN Finish(W, t, [l EXCEPT !.ccLooked = TRUE], db)
    ELSE [W EXCEPT !.pc[t] = "geocoding",
                   !.loc[t] = [l EXCEPT !.ccLooked = TRUE]]

\* process_user from its start to its end or to the first provider call
Start(W, t, in, db, provider) ==
    LET l0 == [NoLocals EXCEPT !.location = in.location]
    IN  IF in.details \in {"raise", "message"}
        THEN RaisedIn(Errored(W, t), t, "details")
        ELSE IF in.profile_email # NoneValue
        THEN Locate(W, t, [l0 EXCEPT !.email = in.profile_email,
                                     !.name = LoginOf(t)],
                    in, db, provider)
        ELSE IF in.commit_email = "raise"
        THEN RaisedIn(Errored(W, t), t, "commit_email")
        ELSE Locate(W, t, [l0 EXCEPT
                               !.email = in.commit_email,
                               !.name = IF in.commit_email = NoneValue
                                        THEN NoneValue ELSE "author"],
                    in, db, provider)

\* a provider call of get_country_code answers: the code in upper case, the
\* next call, or None after the last one; then the rest of process_user
Answered(W, t, answer, db, provider) ==
    LET l == [W.loc[t] EXCEPT !.calls = @ + 1]
    IN  IF answer # NoneValue
        THEN Finish(W, t, [l EXCEPT !.country_code = Upper(answer)], db)
        ELSE IF l.calls < MaxCalls(provider)
        THEN [W EXCEPT !.loc[t] = l]
        ELSE Finish(W, t, l, db)

InitBatch ==
    /\ \E table \in InitialTables : worlds = [w \in {"plain"} |-> InitWorld(table)]
    /\ faultAt = "details"
    /\ LOCATION_PROVIDER \in Providers

InitTwin ==
    /\ \E table \in InitialTables : worlds = [w \in Worlds |-> InitWorld(table)]
    /\ faultAt \in FaultPoints
    /\ LOCATION_PROVIDER = "nominatim"

BatchOff ==
    /\ worlds = [w \in {"plain"} |-> InitWorld({})]
    /\ faultAt = "details"
    /\ LOCATION_PROVIDER = "nominatim"

\* the answers task t gets in world w
InputsIn(w, t, in) ==
    IF w = "faulty" /\ t = FaultyTask THEN WithFault(in, faultAt) ELSE in

DbIn(w, t, db) ==
    IF w = "faulty" /\ t = FaultyTask THEN DbWithFault(db, faultAt) ELSE db

\* the event loop starts task t
ProcessUser(t, in, db) ==
    /\ worlds["plain"].pc[t] = "pending"
    /\ worlds' = [w \in DOMAIN worlds |->
                     Start(worlds[w], t, InputsIn(w, t, in), DbIn(w, t, db),
                           LOCATION_PROVIDER)]
    /\ UNCHANGED <<faultAt, LOCATION_PROVIDER>>
    /\ UNCHANGED <<clientVars, runVars, storeVars, scanVars, overlapVars>>

\* the provider call task t awaits has answered
ProviderAnswers(t, answer, db) ==
    /\ worlds["plain"].pc[t] = "geocoding"
    /\ worlds' = [w \in DOMAIN worlds |->
                     IF worlds[w].pc[t] = "geocoding"
                     THEN Answered(worlds[w], t, answer, DbIn(w, t, db),
                                   LOCATION_PROVIDER)
                     ELSE worlds[w]]
    /\ UNCHANGED <<faultAt, LOCATION_PROVIDER>>
    /\ UNCHANGED <<clientVars, runVars, storeVars, scanVars, overlapVars>>

NextBatch ==
    \/ \E t \in BatchTasks, in \in TaskInputs, db \in DbAnswers :
           ProcessUser(t, in, db)
    \/ \E t \in BatchTasks, answer \in {"no", NoneValue}, db \in DbAnswers :
           ProviderAnswers(t, answer, db)

\* in the comparison only the injected fault makes FaultyTask fault
NextTwin ==
    \/ \E t \in BatchTasks, in \in TwinInputs :
           ProcessUser(t, in, "ok")
    \/ \E t \in BatchTasks, answer \in {"no", NoneValue} :
           ProviderAnswers(t, answer, "ok")

(***************************************************************************)
(* The paginator, the checkpoint store and the orchestrator loop.          *)
(***************************************************************************)
Range(seq) == {seq[k] : k \in 1 .. Len(seq)}

Contiguous(n) == [k \in 1 .. n |-> k]
Strided(n, step) == [k \in 1 .. n |-> step * k]

\* the upstream listings the runs are checked on
Listings ==
    {Contiguous(n) : n \in {0, 37, 100, 137, 237}} \cup {Strided(137, 3)}

\* the listing request cutting the page one user short
ListingPageShort(all, cursor) ==
    LET later == SelectSeq(all, LAMBDA id : id > cursor)
    IN  IF Len(later) <= per_page - 1 THEN later ELSE SubSeq(later, 1, per_page - 1)

\* GET /users?since={since}&per_page=100: the first per_page users with an ID
\* greater than since
ListingPage(all, cursor) ==
    LET later == SelectSeq(all, LAMBDA id : id > cursor)
    IN  IF Len(later) <= per_page THEN later ELSE SubSeq(later, 1, per_page)

\* the paginator advancing the cursor by the number of users received
get_active_github_users_by_len(body, isList, cursor) ==
    IF ~isList THEN << << >>, NoCursor >>
    ELSE IF Len(body) = 0 THEN << << >>, NoCursor >>
    ELSE << body, cursor + Len(body) >>

\* the paginator continuing after the last ID received
get_active_github_users_last_id(body, isList, cursor) ==
    IF ~isList THEN << << >>, NoCursor >>
    ELSE IF Len(body) = 0 THEN << << >>, NoCursor >>
    ELSE << body, body[Len(body)] >>

\* get_active_github_users(since) on a response body that is the list "body",
\* or that is no list or no JSON (isList = FALSE): <<users, next_since>>
get_active_github_users(body, isList, cursor) ==
    IF ~isList THEN << << >>, NoCursor >>
    ELSE IF Len(body) = 0 THEN << << >>, NoCursor >>
    ELSE << body, cursor + SinceStep >>

\* a run that ignores the stored checkpoint
get_saved_since_value_zero(rows) == 0

\* get_saved_since_value
get_saved_since_value(rows) ==
    IF rows = {} THEN 0 ELSE CHOOSE v \in rows : TRUE

\* save_since_value when its commit succeeds: the one row holds since_value
save_since_value(rows, since_value) == {since_value}

\* a gather that returns as soon as one task has ended
GatherFirstDone(nFinished, page) == nFinished >= 1

\* asyncio.gather(*tasks, return_exceptions=True) returns
GatherDone(nFinished, page) == nFinished = Len(page)

\* an end-of-listing test that takes a full page for the end as well
ShortPageOrFull(page) == Len(page) <= FullPage

\* the end-of-listing test that only takes an empty page for the end
ShortPageOnlyEmpty(page) == Len(page) = 0

\* if len(users) < 100: break
ShortPage(page) == Len(page) < FullPage

\* what the enrichment of the entities yields, the same in every run: each
\* entity an email of its own; a fault for each; or, by the ID of the
\* entity, a fault, no email, or an email shared by two entities
Patterns == {"own_email", "faults", "mixed"}

\* process_user counts an error for the entity
FaultsOn(p, id) == p = "faults" \/ (p = "mixed" /\ id % 4 = 0)

\* the email process_user resolves for the entity
EmailOf(p, id) ==
    IF p = "own_email" THEN ToString(id)
    ELSE IF p = "mixed" /\ id % 4 \in {2, 3} THEN ToString(id \div 4)
    ELSE NoneValue

NoOutcome == [status |-> "none", last_since_value |-> NoCursor]

RunOff ==
    /\ listing = << >>
    /\ fetch_state = {}
    /\ runPc = "off"
    /\ since = NoCursor
    /\ users = << >>
    /\ next_since = NoCursor
    /\ finished = 0
    /\ anyErrored = FALSE
    /\ anyOk = FALSE
    /\ outcome = NoOutcome
    /\ handed = {}
    /\ pageLens = << >>
    /\ startSince = NoCursor
    /\ fetchFailed = FALSE
    /\ runCount = 0
    /\ faulted = FALSE
    /\ badPayload = FALSE
    /\ pattern \in {"own_email"}
    /\ prevClean = FALSE
    /\ prevTable = {}
    /\ prevFetchState = {}

InitRun ==
    /\ listing \in Listings
    /\ fetch_state = {}
    /\ runPc = "idle"
    /\ since = NoCursor
    /\ users = << >>
    /\ next_since = NoCursor
    /\ finished = 0
    /\ anyErrored = FALSE
    /\ anyOk = FALSE
    /\ outcome = NoOutcome
    /\ handed = {}
    /\ pageLens = << >>
    /\ startSince = NoCursor
    /\ fetchFailed = FALSE
    /\ runCount = 0
    /\ faulted = FALSE
    /\ badPayload = FALSE
    /\ pattern \in Patterns
    /\ prevClean = FALSE
    /\ prevTable = {}
    /\ prevFetchState = {}

\* the instance whose run() the orchestrator actions model
RunInstance == "A"

\* return {"status": ..., "last_since_value": ...}
Return(status, cursor) ==
    /\ outcome' = [status |-> status, last_since_value |-> cursor]
    /\ runPc' = "done"

\* the outer "except Exception" of run: save_since_value in try/except: pass,
\* then the error outcome
OuterHandler(rows, cursor, saveOk) ==
    /\ fetch_state' = IF saveOk /\ cursor # NoCursor
                      THEN save_since_value(rows, cursor) ELSE rows
    /\ faulted' = TRUE
    /\ stats' = stats
    /\ Return("error", cursor)

\* the "except Exception" inside the loop: save_since_value, errors += 1,
\* break, and so the "complete" outcome; a failing save goes to the outer one
InnerHandler(rows, cursor, saveOk, saveOk2) ==
    IF saveOk
    THEN /\ fetch_state' = save_since_value(rows, cursor)
         /\ faulted' = TRUE
         /\ stats' = [stats EXCEPT ![RunInstance].errors = @ + 1]
         /\ Return("complete", cursor)
    ELSE OuterHandler(rows, cursor, saveOk2)

\* save_since_value(db_session, since) followed by break
SaveAndBreak(cursor, saveOk, saveOk2, saveOk3) ==
    IF saveOk
    THEN /\ fetch_state' = save_since_value(fetch_state, cursor)
         /\ faulted' = faulted
         /\ stats' = stats
         /\ Return("complete", cursor)
    ELSE InnerHandler(fetch_state, cursor, saveOk2, saveOk3)

\* run() is invoked
RunStart ==
    /\ runPc \in {"idle", "done"}
    /\ runCount < MaxRuns
    /\ runCount' = runCount + 1
    /\ runPc' = "load"
    /\ since' = NoCursor
    /\ users' = << >>
    /\ next_since' = NoCursor
    /\ finished' = 0
    /\ anyErrored' = FALSE
    /\ anyOk' = FALSE
    /\ outcome' = NoOutcome
    /\ pageLens' = << >>
    /\ startSince' = NoCursor
    /\ fetchFailed' = FALSE
    /\ faulted' = FALSE
    /\ badPayload' = FALSE
    /\ prevClean' = (runPc = "done" /\ outcome.status = "complete"
                        /\ ~faulted /\ ~badPayload)
    /\ prevTable' = users_table
    /\ prevFetchState' = fetch_state
    /\ UNCHANGED <<listing, fetch_state, handed, pattern>>
    /\ stats' = [stats EXCEPT ![RunInstance] = NoStats]
    /\ UNCHANGED <<users_table, next_id, taskPc, taskUser, taskResult>>
    /\ UNCHANGED <<clientVars, batchVars, scanVars, overlapVars>>

\* since = get_saved_since_value(db_session); when the query raises, "since"
\* stays unbound and the outer handler returns last_since_value None
LoadCheckpoint(loadOk) ==
    /\ runPc = "load"
    /\ IF loadOk
       THEN /\ since' = get_saved_since_value(fetch_state)
            /\ startSince' = get_saved_since_value(fetch_state)
            /\ runPc' = "fetch"
            /\ UNCHANGED <<fetch_state, outcome, faulted, stats>>
       ELSE /\ OuterHandler(fetch_state, NoCursor, FALSE)
            /\ UNCHANGED <<since, startSince>>
    /\ UNCHANGED <<listing, users, next_since, finished, anyErrored, anyOk,
                   handed, pageLens, fetchFailed, runCount, badPayload,
                   pattern, prevClean, prevTable, prevFetchState>>
    /\ UNCHANGED <<users_table, next_id, taskPc, taskUser, taskResult>>
    /\ UNCHANGED <<clientVars, batchVars, scanVars, overlapVars>>

\* users, next_since = get_active_github_users(since) and the tests on users:
\* an empty page saves since and stops, another one starts the batch
FetchPage(isList, saveOk, saveOk2, saveOk3) ==
    /\ runPc = "fetch"
    /\ LET got == get_active_github_users(ListingPage(listing, since), isList, since)
       IN  /\ users' = got[1]
           /\ next_since' = got[2]
           /\ pageLens' = Append(pageLens, Len(got[1]))
           /\ finished' = 0
           /\ anyErrored' = FALSE
           /\ anyOk' = FALSE
           /\ IF Len(got[1]) = 0
              THEN /\ SaveAndBreak(since, saveOk, saveOk2, saveOk3)
                   /\ handed' = handed
              ELSE /\ handed' = handed \cup Range(got[1])
                   /\ runPc' = "batch"
                   /\ stats' = [stats EXCEPT
                                    ![RunInstance].total_fetched = @ + Len(got[1])]
                   /\ UNCHANGED <<fetch_state, outcome, faulted>>
    /\ badPayload' = (badPayload \/ ~isList)
    /\ UNCHANGED <<listing, since, startSince, fetchFailed, runCount, pattern,
                   prevClean, prevTable, prevFetchState>>
    /\ UNCHANGED <<users_table, next_id, taskPc, taskUser, taskResult>>
    /\ UNCHANGED <<clientVars, batchVars, scanVars, overlapVars>>

\* safe_get raises inside get_active_github_users: the inner handler
FetchPageRaises(saveOk, saveOk2) ==
    /\ runPc = "fetch"
    /\ fetchFailed' = TRUE
    /\ InnerHandler(fetch_state, since, saveOk, saveOk2)
    /\ UNCHANGED <<listing, since, users, next_since, finished, anyErrored, anyOk,
                   handed, pageLens, startSince, runCount, badPayload, pattern,
                   prevClean, prevTable, prevFetchState>>
    /\ UNCHANGED <<users_table, next_id, taskPc, taskUser, taskResult>>
    /\ UNCHANGED <<clientVars, batchVars, scanVars, overlapVars>>

\* the next process_user task of the batch, in the order of the page, runs to
\* its end: it counts an error, skips its user, finds a record with the
\* handle or the email, or adds the record
TaskEnds ==
    /\ runPc = "batch"
    /\ finished < Len(users)
    /\ finished' = finished + 1
    /\ LET id == users[finished + 1]
           errored == FaultsOn(pattern, id)
           email == EmailOf(pattern, id)
           s == stats[RunInstance]
       IN  /\ stats' = [stats EXCEPT ![RunInstance] =
                           IF errored THEN [s EXCEPT !.errors = @ + 1]
                           ELSE IF NoEmail(email)
                           THEN [s EXCEPT !.skipped_no_email = @ + 1]
                           ELSE IF ExistingUser(users_table, id, email) THEN s
                           ELSE Saved(s)]
           /\ anyErrored' = (anyErrored \/ errored)
           /\ anyOk' = (anyOk \/ ~errored)
           /\ IF ~errored /\ ~NoEmail(email)
                  /\ ~ExistingUser(users_table, id, email)
              THEN /\ users_table' = users_table \cup
                          {NewUser(next_id, id,
                                   [NoLocals EXCEPT !.email = email, !.name = id])}
                   /\ next_id' = next_id + 1
              ELSE UNCHANGED <<users_table, next_id>>
    /\ UNCHANGED <<listing, fetch_state, runPc, since, users, next_since, outcome,
                   handed, pageLens, startSince, fetchFailed, runCount, faulted,
                   badPayload, pattern, prevClean, prevTable, prevFetchState>>
    /\ UNCHANGED <<taskPc, taskUser, taskResult>>
    /\ UNCHANGED <<clientVars, batchVars, scanVars, overlapVars>>

\* gather returns; then: a missing next_since saves since and stops;
\* otherwise since = next_since is saved, and a short page stops the loop
AdvanceCursor(saveOk, saveOk2, saveOk3) ==
    /\ runPc = "batch"
    /\ GatherDone(finished, users)
    /\ IF next_since = NoCursor
       THEN /\ SaveAndBreak(since, saveOk, saveOk2, saveOk3)
            /\ since' = since
       ELSE /\ since' = next_since
            /\ IF saveOk
               THEN /\ fetch_state' = save_since_value(fetch_state, next_since)
                    /\ faulted' = faulted
                    /\ stats' = stats
                    /\ IF ShortPage(users)
                       THEN Return("complete", next_since)
                       ELSE /\ runPc' = "fetch"
                            /\ outcome' = outcome
               ELSE InnerHandler(fetch_state, next_since, saveOk2, saveOk3)
    /\ UNCHANGED <<listing, users, next_since, finished, anyErrored, anyOk, handed,
                   pageLens, startSince, fetchFailed, runCount, badPayload,
                   pattern, prevClean, prevTable, prevFetchState>>
    /\ UNCHANGED <<users_table, next_id, taskPc, taskUser, taskResult>>
    /\ UNCHANGED <<clientVars, batchVars, scanVars, overlapVars>>


NextRun ==
    \/ RunStart
    \/ \E loadOk \in BOOLEAN : LoadCheckpoint(loadOk)
    \/ \E isList, saveOk, saveOk2, saveOk3 \in BOOLEAN :
           FetchPage(isList, saveOk, saveOk2, saveOk3)
    \/ \E saveOk, saveOk2 \in BOOLEAN : FetchPageRaises(saveOk, saveOk2)
    \/ TaskEnds
    \/ \E saveOk, saveOk2, saveOk3 \in BOOLEAN :
           AdvanceCursor(saveOk, saveOk2, saveOk3)

(***************************************************************************)
(* The commit-derived email fallback, get_email_from_commits of github.py. *)
(* An address is the sequence of its parts, the last part being the end of *)
(* its domain.                                                             *)
(***************************************************************************)
RepoWindow == 5       \* repos[:5]
CommitWindow == 10    \* commits[:10]

\* one repository and one commit more than the windows look at
NumRepos == RepoWindow + 1
NumCommits == CommitWindow + 1

Address1 == <<"ann", "@", "example.org">>
Address2 == <<"bob", "@", "example.org">>

\* author emails the scan passes over: generated by the platform, in a
\* domain that ends like the platform's, missing, and without "@"
Passed ==
    {<<"1+ann", "@", "users.noreply.", "github.com">>,
     <<"ann", "@", "GitHub.com">>,
     <<"ann", "@", "my", "github.com">>,
     << >>,
     <<"root">>}

\* None among the addresses, and the return value None, None
NoAddress == <<NoneValue>>
NotFound == <<NoneValue, NoAddress>>

\* str.lower() on the parts used here
LowerPart(part) == IF part = "GitHub.com" THEN "github.com" ELSE part

\* a slice that takes the whole list
SliceAll(seq, n) == seq

\* seq[:n]
Slice(seq, n) == IF Len(seq) <= n THEN seq ELSE SubSeq(seq, 1, n)

\* is_github_email: the text after the last "@" ends with github.com
is_github_email(email) ==
    IF email = << >> THEN FALSE
    ELSE LowerPart(email[Len(email)]) = "github.com"

\* if email and "@" in email and not is_github_email(email)
Accepted(email) ==
    /\ email # << >>
    /\ \E k \in 1 .. Len(email) : email[k] = "@"
    /\ ~is_github_email(email)

\* for commit in commits[:10]: the first accepted author, from commit i on
RECURSIVE ScanCommits(_, _)
ScanCommits(commits, i) ==
    IF i > Len(commits) THEN NotFound
    ELSE IF Accepted(commits[i].email)
    THEN <<commits[i].name, commits[i].email>>
    ELSE ScanCommits(commits, i + 1)

\* a repository the loop passes over: no name, a commits request that
\* raises or is not answered with 200, a body that is no JSON list
Skipped(repo) == repo.name = "" \/ repo.answer # "ok"

\* for repo in repos[:5], from repository k on
RECURSIVE ScanRepos(_, _)
ScanRepos(repos, k) ==
    IF k > Len(repos) THEN NotFound
    ELSE IF Skipped(repos[k]) THEN ScanRepos(repos, k + 1)
    ELSE LET hit == ScanCommits(Slice(repos[k].commits, CommitWindow), 1)
         IN  IF hit # NotFound THEN hit ELSE ScanRepos(repos, k + 1)

\* get_email_from_commits on an answered repository listing
get_email_from_commits(res) ==
    IF res.answer # "ok" THEN NotFound
    ELSE ScanRepos(Slice(res.repos, RepoWindow), 1)

\* ways a request of the scan fails
RepoFailures == {"status", "no_list", "raise"}

\* the commit at place i of repository k when the first accepted author is
\* at place <<r, c>>: passed-over authors before it, another author after
CommitAt(k, i, r, c, passed) ==
    IF k < r \/ (k = r /\ i < c) THEN [name |-> "x", email |-> passed]
    ELSE IF k = r /\ i = c THEN [name |-> "ann", email |-> Address1]
    ELSE [name |-> "bob", email |-> Address2]

\* the repositories of a user; repository bad (if any) fails as failure
\* says, or has no name
ReposOf(r, c, passed, bad, failure) ==
    [k \in 1 .. NumRepos |->
        [name |-> IF k = bad /\ failure = "no_name" THEN "" ELSE "repo",
         answer |-> IF k = bad /\ failure # "no_name" THEN failure ELSE "ok",
         commits |-> [i \in 1 .. NumCommits |-> CommitAt(k, i, r, c, passed)]]]

\* the answers the scan is checked on
ScanInputs ==
    {[answer |-> "ok", repos |-> ReposOf(r, c, passed, 0, "status")] :
        r \in 1 .. NumRepos, c \in 1 .. NumCommits, passed \in Passed}
    \cup
    {[answer |-> "ok", repos |-> ReposOf(r, c, << >>, bad, failure)] :
        r \in 1 .. NumRepos, c \in {1, CommitWindow, NumCommits},
        bad \in 1 .. NumRepos, failure \in RepoFailures \cup {"no_name"}}
    \cup
    {[answer |-> failure, repos |-> ReposOf(1, 1, << >>, 0, "status")] :
        failure \in RepoFailures}
    \cup
    {[answer |-> "ok", repos |-> SubSeq(ReposOf(r, 1, << >>, 0, "status"), 1, n)] :
        r \in 1 .. NumRepos, n \in 0 .. 2}

InitScan ==
    /\ repos_res \in ScanInputs
    /\ scanPc = "call"
    /\ fallback = NotFound

ScanOff ==
    /\ repos_res = [answer |-> "ok", repos |-> << >>]
    /\ scanPc = "returned"
    /\ fallback = NotFound

\* name, email = get_email_from_commits(username); safe_get raising on the
\* repository listing leaves the function as an exception
GetEmailFromCommits ==
    /\ scanPc = "call"
    /\ IF repos_res.answer = "raise"
       THEN scanPc' = "raised" /\ fallback' = fallback
       ELSE scanPc' = "returned" /\ fallback' = get_email_from_commits(repos_res)
    /\ UNCHANGED repos_res
    /\ UNCHANGED <<clientVars, runVars, storeVars, batchVars, overlapVars>>

NextScan == GetEmailFromCommits

(***************************************************************************)
(* Two invocations of run() on one event loop.  An invocation runs without *)
(* suspension from its start, and from the return of asyncio.gather, to    *)
(* the next "await asyncio.gather" or to its end; the other invocation     *)
(* runs in between.                                                        *)
(***************************************************************************)
Invocations == {"r1", "r2"}

\* what get_active_github_users meets: a list, a body that is no list, or
\* safe_get raising
FetchAnswers == {"list", "no_list", "raise"}

NotInvoked ==
    [pc |-> "idle", since |-> NoCursor, next_since |-> NoCursor, len |-> 0]

\* the invocation has returned with last_since_value = cursor
Returned(cursor) ==
    [pc |-> "done", since |-> cursor, next_since |-> NoCursor, len |-> 0]

\* one pass of "while True" from the fetch to the await of gather: an
\* exception or an empty page saves since and breaks, another page starts
\* the batch; <<rows of fetch_state, invocation>>
FetchAndGather(rows, cursor, answer) ==
    IF answer = "raise"
    THEN <<save_since_value(rows, cursor), Returned(cursor)>>
    ELSE LET got == get_active_github_users(ListingPage(directory, cursor),
                                            answer = "list", cursor)
         IN  IF Len(got[1]) = 0
             THEN <<save_since_value(rows, cursor), Returned(cursor)>>
             ELSE <<rows, [pc |-> "gather", since |-> cursor,
                           next_since |-> got[2], len |-> Len(got[1])]>>

OverlapOff ==
    /\ directory = << >>
    /\ stored = {}
    /\ invocation = [r \in Invocations |-> NotInvoked]

InitOverlap ==
    /\ directory \in Listings
    /\ stored = {}
    /\ invocation = [r \in Invocations |-> NotInvoked]

\* GET /git_users: since = get_saved_since_value(db_session), then the loop
TriggerRun(r, answer) ==
    /\ invocation[r].pc \in {"idle", "done"}
    /\ LET next == FetchAndGather(stored, get_saved_since_value(stored), answer)
       IN  /\ stored' = next[1]
           /\ invocation' = [invocation EXCEPT ![r] = next[2]]
    /\ UNCHANGED directory
    /\ UNCHANGED <<clientVars, runVars, storeVars, batchVars, scanVars>>

\* gather returns: since = next_since; save_since_value(db_session, since);
\* a short page breaks, a full one goes round the loop
GatherReturns(r, answer) ==
    /\ invocation[r].pc = "gather"
    /\ LET cursor == invocation[r].next_since
           rows == save_since_value(stored, cursor)
           next == IF invocation[r].len < FullPage
                   THEN <<rows, Returned(cursor)>>
                   ELSE FetchAndGather(rows, cursor, answer)
       IN  /\ stored' = next[1]
           /\ invocation' = [invocation EXCEPT ![r] = next[2]]
    /\ UNCHANGED directory
    /\ UNCHANGED <<clientVars, runVars, storeVars, batchVars, scanVars>>

NextOverlap ==
    \E r \in Invocations, answer \in FetchAnswers :
        \/ TriggerRun(r, answer)
        \/ GatherReturns(r, answer)

InitSpecStore == InitClient /\ RunOff /\ InitStore /\ BatchOff /\ ScanOff /\ OverlapOff

\* the users table under tasks of two orchestrator instances
SpecStore == InitSpecStore /\ [][NextStore]_vars

Init == InitClient /\ InitRun /\ InitStore /\ BatchOff /\ ScanOff /\ OverlapOff

Next == NextRun

\* the orchestrator: runs of run(), one after the other
Spec == Init /\ [][Next]_vars

\* the runs when every call returns in the end: a step of run that can be
\* taken is taken
SpecFair == Init /\ [][Next]_vars /\ WF_vars(Next)

InitSpecClient == InitClient /\ RunOff /\ InitStore /\ BatchOff /\ ScanOff /\ OverlapOff

\* the credential pool and the client alone
SpecClient == InitSpecClient /\ [][NextClient]_vars

InitSpecBatch == InitClient /\ RunOff /\ InitStore /\ InitBatch /\ ScanOff /\ OverlapOff

\* one page batch of process_user tasks alone
SpecBatch == InitSpecBatch /\ [][NextBatch]_vars

InitSpecTwin == InitClient /\ RunOff /\ InitStore /\ InitTwin /\ ScanOff /\ OverlapOff

\* a page batch and its faulty twin
SpecTwin == InitSpecTwin /\ [][NextTwin]_vars

InitSpecPair == InitClientPair /\ RunOff /\ InitStore /\ BatchOff /\ ScanOff /\ OverlapOff

\* the credential pool and the client called from two threads
SpecPair == InitSpecPair /\ [][NextPair]_vars

InitSpecOverlap ==
    InitClient /\ RunOff /\ InitStore /\ BatchOff /\ ScanOff /\ InitOverlap

\* invocations of run that overlap
SpecOverlap == InitSpecOverlap /\ [][NextOverlap]_vars

InitSpecScan == InitClient /\ RunOff /\ InitStore /\ BatchOff /\ InitScan /\ OverlapOff

\* the commit-derived email fallback alone
SpecScan == InitSpecScan /\ [][NextScan]_vars

(***************************************************************************)
(* Properties of the rate-limited client and the credential pool           *)
(* (checked under SpecClient).                                             *)
(***************************************************************************)

\* C1: a 403/429 response takes no slot of the retry budget: safe_get raises
\* only when max_retries connection-level exceptions have used the budget up,
\* never after rate-limit responses alone.
C1_RateLimitTakesNoBudget ==
    \A c \in Callers : pc[c] = "raised" => nExceptions[c] = max_retries

\* the records _switch_to_available_token works on when caller c is about to
\* run it: with the new reset recorded (mark_rate_limited), or as they are
\* (the retry after the sleep)
RecordsAtSwitch(c) ==
    IF pc[c] = "mark"
    THEN RecordReset(rate_limited_tokens, current_token_index, reset[c])
    ELSE rate_limited_tokens

\* C2: whenever mark_rate_limited returns, the credential it made current had
\* no record or a reset time that has elapsed, and has no record afterwards;
\* so no credential whose reset is still ahead is selected, and when all are
\* rate-limited the selection comes after the earliest reset.
C2_RotationCorrect ==
    [][\A c \in Callers :
          (pc[c] \in {"mark", "wait"} /\ pc'[c] \notin {"mark", "wait"}) =>
              /\ \/ current_token_index' \notin DOMAIN RecordsAtSwitch(c)
                 \/ RecordsAtSwitch(c)[current_token_index'] <= current_time
              /\ current_token_index' \notin DOMAIN rate_limited_tokens']_vars

\* C2 witness: a mark_rate_limited that found every credential rate-limited
\* has slept and returned with another credential current
C2_Witness ==
    \E c \in Callers :
        /\ pc[c] = "headers"
        /\ waited[c]
        /\ current_token_index # tokenUsed[c]

(***************************************************************************)
(* Properties of the orchestrator (checked under Spec).                    *)
(***************************************************************************)

\* C3: whenever the checkpoint holds C, every user of the listing with
\* ID <= C has been handed to process_user, in this run or an earlier one.
C3_NoEntitySkipped ==
    \A k \in 1 .. Len(listing) :
        listing[k] <= get_saved_since_value(fetch_state) => listing[k] \in handed

\* C3 witness: a run resumed from a committed checkpoint and moved it on
C3_Witness ==
    /\ runCount >= 2
    /\ startSince >= SinceStep
    /\ get_saved_since_value(fetch_state) > startSince
    /\ \E k \in 1 .. Len(listing) : listing[k] > startSince /\ listing[k] \in handed

\* C6: a run in which fetching a page raised ends with the last good cursor
\* checkpointed and with status "error".
C6_FetchFaultReportsError ==
    (runPc = "done" /\ fetchFailed) =>
        (outcome.status = "error" /\ fetch_state = {since})

\* C7: a finished run has status complete or error, and the cursor in its
\* outcome is the checkpoint the next run will load.
C7_OutcomeCarriesCheckpoint ==
    runPc = "done" =>
        /\ outcome.status \in {"complete", "error"}
        /\ outcome.last_since_value = get_saved_since_value(fetch_state)

\* C8: when the next page is about to be fetched, every task of the page
\* before has ended and that page's next_since is the stored checkpoint,
\* whatever the tasks' outcomes; the same holds when the run completes after
\* its last non-empty page.
C8_CheckpointAfterBatchBeforeFetch ==
    /\ (runPc = "fetch" /\ pageLens # << >>) =>
           /\ finished = Len(users)
           /\ since = next_since
           /\ fetch_state = {next_since}
    /\ (runPc = "done" /\ outcome.status = "complete" /\ Len(users) > 0) =>
           /\ finished = Len(users)
           /\ fetch_state = {next_since}

\* C8 witness: the next page is due after a page all of whose tasks errored
C8_Witness ==
    /\ runPc = "fetch"
    /\ pageLens # << >>
    /\ anyErrored
    /\ ~anyOk

\* C9 as stated: after a page of 100 and a page of 37 users the final cursor
\* is start + 100.
C9_FinalCursorStartPlus100 ==
    (runPc = "done" /\ pageLens = <<100, 37>>) =>
        outcome.last_since_value = startSince + 100

\* C9 amended: after a page of 100 and a page of 37 users the cursor in the
\* outcome is start + 200, and it is the stored checkpoint when the run
\* reports complete.
C9_FinalCursorStartPlus200 ==
    (runPc = "done" /\ pageLens = <<100, 37>>) =>
        /\ outcome.last_since_value = startSince + 200
        /\ outcome.status = "complete" => fetch_state = {startSince + 200}

\* C9 witness: a resumed run got 100 and then 37 users and completed
C9_Witness ==
    /\ runPc = "done"
    /\ pageLens = <<100, 37>>
    /\ startSince = 100
    /\ outcome.status = "complete"

\* C10: every page a run got except its last one was a full page: after a
\* short or an empty page no further page is fetched (so 100 and then 37
\* users make exactly two pages).
C10_NoFetchAfterShortPage ==
    \A k \in 1 .. (Len(pageLens) - 1) : pageLens[k] >= FullPage

\* C10 witness: a run from cursor 0 ended after a second page of 37 users
C10_Witness ==
    /\ runPc = "done"
    /\ startSince = 0
    /\ Len(pageLens) = 2
    /\ pageLens[2] = 37

(***************************************************************************)
(* Properties of the users table (checked under SpecStore).                *)
(***************************************************************************)

\* C4: no two rows of users have the same git_username, whatever the
\* interleaving of the tasks of concurrent runs.
C4_UniqueUsername ==
    \A r1, r2 \in users_table : r1.git_username = r2.git_username => r1 = r2

\* C4 witness: a commit was refused by the constraint while the row of the
\* other task is in the table
C4_Witness ==
    \E t \in Tasks :
        /\ taskResult[t] = "integrity_error"
        /\ \E row \in users_table : row.git_username = taskUser[t].git_username

\* C5: no two rows of users have the same email, whatever the interleaving
\* of the tasks of concurrent runs.
C5_UniqueEmail ==
    \A r1, r2 \in users_table : r1.email = r2.email => r1 = r2

(***************************************************************************)
(* Further properties of the rate-limited client (checked under SpecClient *)
(* and, for termination, under SpecClientFair).                            *)
(***************************************************************************)

\* the client with a clock that advances and a sleeper that wakes up: the
\* time.sleep of _switch_to_available_token returns once its time has passed
SpecClientFair ==
    /\ InitSpecClient
    /\ [][NextClient]_vars
    /\ WF_vars(Tick)
    /\ \A c \in Callers : WF_vars(SwitchRetry(c))

\* C17: a response whose status is neither 2xx nor 403/429 (404, 500) is
\* returned to the caller by the attempt that receives it: no further
\* attempt, no sleep, and the credential pool is left as it was.
C17_OtherStatusReturnedAtOnce ==
    [][\A c \in Callers :
          (/\ nRequests'[c] = nRequests[c] + 1
           /\ lastStatus'[c] \in PassStatuses \ {200}) =>
              /\ pc'[c] = "returned"
              /\ result'[c] = lastStatus'[c]
              /\ attempt'[c] = attempt[c]
              /\ wakeAt'[c] = wakeAt[c]
              /\ slept'[c] = slept[c]
              /\ current_token_index' = current_token_index
              /\ rate_limited_tokens' = rate_limited_tokens
              /\ lock' = lock]_vars

\* C17 witness: a 404 answered the second attempt of a call (the first one
\* raised) and has been returned
C17_Witness ==
    \E c \in Callers :
        /\ pc[c] = "returned"
        /\ lastStatus[c] = 404
        /\ nExceptions[c] = 1
        /\ nRequests[c] = 2

\* C18: when every attempt of a call raises a connection-level exception,
\* safe_get makes exactly max_retries attempts, sleeps 2^attempt seconds
\* after each failed attempt but the last, and then raises; and once an
\* attempt has returned a response no further attempt is made.
C18_RetryBudgetAndBackoff ==
    /\ [](\A c \in Callers :
            /\ nExceptions[c] = nRequests[c] => nRequests[c] <= max_retries
            /\ (pc[c] = "raised" /\ nExceptions[c] = nRequests[c]) =>
                   nRequests[c] = max_retries
            /\ (nExceptions[c] = max_retries /\ nRequests[c] = max_retries) =>
                   pc[c] = "raised"
            /\ (/\ nExceptions[c] = nRequests[c]
                /\ nRequests[c] > 0
                /\ pc[c] \in {"headers", "request"}) =>
                   /\ attempt[c] = nRequests[c]
                   /\ slept[c] = 2 ^ (attempt[c] - 1))
    /\ [][\A c \in Callers :
             pc[c] = "returned" => nRequests'[c] <= nRequests[c]]_vars

\* C18 witness: three attempts raised, with sleeps of 1 and 2 seconds
\* between them, and the call has raised
C18_Witness ==
    \E c \in Callers :
        /\ pc[c] = "raised"
        /\ nExceptions[c] = max_retries
        /\ nRequests[c] = max_retries
        /\ slept[c] = 2

\* C20: a mark_rate_limited that finds every credential with a reset time
\* ahead blocks; as the clock advances it returns, not before the earliest
\* reset time of the pool, and with a current credential whose reset time
\* has elapsed.
C20_BlockingSwitchReturns ==
    /\ \A c \in Callers : (pc[c] = "wait") ~> (pc[c] # "wait")
    /\ [][\A c \in Callers :
             (pc[c] = "wait" /\ pc'[c] # "wait") =>
                 /\ EarliestReset(rate_limited_tokens) <= current_time
                 /\ current_token_index' \in DOMAIN rate_limited_tokens
                 /\ rate_limited_tokens[current_token_index'] <= current_time
                 /\ lock' = NoCaller]_vars

\* C20 witness: the blocked call has slept to the end and is about to look
\* for an available credential again
C20_Witness ==
    \E c \in Callers :
        /\ pc[c] = "wait"
        /\ lock = c
        /\ wakeAt[c] = current_time
        /\ EarliestReset(rate_limited_tokens) < current_time

(***************************************************************************)
(* Properties of a page batch of process_user tasks (checked under         *)
(* SpecBatch, and under SpecTwin for the comparison with a faulty twin).   *)
(***************************************************************************)

\* C12: a fault raised while one entity is enriched is caught in its task
\* and counted in errors, the batch still completes, and every other entity
\* of the page reaches the outcome it reaches in the batch without the fault.
C12_SiblingsUnaffected ==
    LET P == worlds["plain"]
        F == worlds["faulty"]
    IN  /\ F.stats.errors =
               Cardinality({t \in BatchTasks : F.outcome[t] = "error"})
        /\ BatchComplete(P) => BatchComplete(F)
        /\ \A s \in BatchTasks \ {FaultyTask} :
               P.pc[s] = "done" =>
                   F.pc[s] = "done" /\ F.outcome[s] = P.outcome[s]

\* C12 (amended): the same, for every other entity that does not resolve to
\* the contact email of the faulting entity.
C12_SiblingsWithOtherEmailUnaffected ==
    LET P == worlds["plain"]
        F == worlds["faulty"]
    IN  /\ F.stats.errors =
               Cardinality({t \in BatchTasks : F.outcome[t] = "error"})
        /\ BatchComplete(P) => BatchComplete(F)
        /\ \A s \in BatchTasks \ {FaultyTask} :
               P.pc[s] = "done" =>
                   /\ F.pc[s] = "done"
                   /\ \/ F.outcome[s] = P.outcome[s]
                      \/ /\ P.pc[FaultyTask] = "done"
                         /\ P.loc[s].email # NoneValue
                         /\ P.loc[s].email = P.loc[FaultyTask].email

\* C12 witness: the entity saved in the plain batch has faulted in the twin
\* and is counted there; its sibling, with another email, is saved in both
C12_Witness ==
    LET P == worlds["plain"]
        F == worlds["faulty"]
    IN  /\ DOMAIN worlds = Worlds
        /\ BatchComplete(F)
        /\ P.outcome[FaultyTask] = "saved"
        /\ F.outcome[FaultyTask] = "error"
        /\ F.stats.errors = 1
        /\ \E s \in BatchTasks \ {FaultyTask} :
               /\ P.outcome[s] = "saved"
               /\ F.outcome[s] = "saved"
               /\ P.loc[s].email # P.loc[FaultyTask].email

C14_StoredCountryWellFormed ==
    \A row \in Written(worlds["plain"]) :
        row.country \in {NoneValue} \cup CountryCodes \cup TimezoneOffsets

\* C15: the timezone is looked up only for an empty location and the country
\* only for a non-empty one, at most one of the two is set, and the country
\* stored is the one that is set.
C15_TimezoneOrCountry ==
    LET W == worlds["plain"]
    IN  \A t \in BatchTasks :
            LET l == W.loc[t]
            IN  /\ l.tzLooked => l.location = << >>
                /\ l.ccLooked => l.location # << >>
                /\ ~(l.timezone # NoneValue /\ l.country_code # NoneValue)
                /\ W.pc[t] = "geocoding" => l.ccLooked
                /\ (W.pc[t] = "done" /\ W.outcome[t] # "error") =>
                       (l.tzLooked <=> ~l.ccLooked)
                /\ W.outcome[t] = "saved" =>
                       /\ l.timezone # NoneValue =>
                              RowOf(W, t).country = l.timezone
                       /\ l.country_code # NoneValue =>
                              RowOf(W, t).country = l.country_code
                       /\ (l.timezone = NoneValue /\ l.country_code = NoneValue)
                              => RowOf(W, t).country = NoneValue

\* C15 witness: one entity saved with the timezone of its commits, another
\* with the country of its location
C15_Witness ==
    LET W == worlds["plain"]
    IN  /\ W.outcome["p1"] = "saved"
        /\ W.loc["p1"].location = << >>
        /\ RowOf(W, "p1").country = "+0300"
        /\ W.outcome["p2"] = "saved"
        /\ W.loc["p2"].location = Oslo
        /\ RowOf(W, "p2").country = "NO"

\* C19: a run never modifies or deletes a record: every row stays as it is
\* (contacted and responded included), and a task that finds a record with
\* its handle or its email attempts no write.
C19_RunOnlyAddsRecords ==
    [][LET W == worlds["plain"]
           V == worlds'["plain"]
       IN  /\ \A row \in W.table : row \in V.table
           /\ \A t \in BatchTasks :
                  (/\ W.pc[t] # "done"
                   /\ V.pc[t] = "done"
                   /\ \E row \in W.table :
                          \/ row.git_username = LoginOf(t)
                          \/ /\ V.loc[t].email # NoneValue
                             /\ row.email = V.loc[t].email) =>
                      /\ V.commits = W.commits
                      /\ V.table = W.table
                      /\ V.outcome[t] # "saved"]_vars

\* C19 witness: the record that was there, contacted and responded, is
\* untouched; one task found its email in it and wrote nothing, the other
\* added a record
C19_Witness ==
    LET W == worlds["plain"]
    IN  /\ W.table0 = {OldRowSameEmail}
        /\ OldRowSameEmail \in W.table
        /\ Cardinality(W.table) = 2
        /\ W.commits = 1
        /\ \E t \in BatchTasks :
               W.outcome[t] = "exists" /\ W.loc[t].email = "e1"

(***************************************************************************)
(* Termination and idempotence of run (checked under SpecFair and Spec).   *)
(***************************************************************************)

\* the greatest user ID of a listing, 0 for the empty one
MaxId(all) == IF Len(all) = 0 THEN 0 ELSE all[Len(all)]

\* a run that met no exception and only got listings for answers
CleanRun == runPc = "done" /\ ~faulted /\ ~badPayload

\* C11: on a finite listing a run, whose calls all return, ends after
\* finitely many page fetches (at most one per 100 IDs of the listing, plus
\* one), and its last page is empty or shorter than 100 while every page
\* before it is full.
C11_RunEndsAtShortPage ==
    /\ (runPc = "load") ~> (runPc = "done")
    /\ [](runPc = "done" /\ ~faulted =>
             /\ Len(pageLens) >= 1
             /\ Len(pageLens) <= (MaxId(listing) \div SinceStep) + 1
             /\ pageLens[Len(pageLens)] < FullPage
             /\ \A k \in 1 .. (Len(pageLens) - 1) : pageLens[k] = FullPage)

\* C11 witness: a run from cursor 0 over 237 users has ended after two full
\* pages and a page of 37
C11_Witness ==
    /\ CleanRun
    /\ startSince = 0
    /\ pageLens = <<FullPage, FullPage, 37>>

\* C16: a run invoked after a run that completed over the same listing, with
\* the same enrichment outcome for each entity, leaves the persisted
\* records and the persisted checkpoint as they were.
C16_SecondRunChangesNothing ==
    (CleanRun /\ prevClean) =>
        users_table = prevTable /\ fetch_state = prevFetchState

\* C16 (amended): such a run leaves the persisted records as they were; it
\* leaves the checkpoint as it was when the listing holds no entity with an
\* ID above it, and otherwise raises it by 100 for each non-empty page it
\* gets.
C16_SecondRunKeepsRecords ==
    (CleanRun /\ prevClean) =>
        /\ users_table = prevTable
        /\ prevFetchState = {startSince}
        /\ fetch_state =
               {startSince +
                   SinceStep * Cardinality({k \in 1 .. Len(pageLens) :
                                               pageLens[k] > 0})}
        /\ MaxId(listing) <= startSince => fetch_state = prevFetchState
        /\ MaxId(listing) > startSince =>
               \A v \in fetch_state : v > startSince

\* C16 witness: over the listing with IDs 3, 6, ..., 411 the first run ended
\* with the checkpoint 300; the second run got the 37 users above 300 again,
\* added no record and left the checkpoint 400
C16_Witness ==
    /\ CleanRun
    /\ prevClean
    /\ prevFetchState = {300}
    /\ fetch_state = {400}
    /\ pageLens = <<37>>
    /\ users_table = prevTable
    /\ users_table # {}


\* C21: the enrichment steps are fault-isolated from each other: an exception
\* raised by the timezone lookup of an entity whose email is known, or by the
\* commit-derived email lookup, does not end the task in an error.
C21_StepsFaultIsolated ==
    \A t \in BatchTasks :
        worlds["plain"].fault[t] \in {"timezone", "commit_email"} =>
            worlds["plain"].outcome[t] # "error"

\* C22: in one page batch, when two concurrent tasks for different handles
\* resolve to the same contact email that no record holds yet and no fault
\* strikes them, exactly one record with that email is written by exactly one
\* insert, the other task ends as already-exists and no error is counted,
\* whatever the interleaving of the two tasks.
C22_SameEmailOneRecord ==
    LET W == worlds["plain"]
    IN  \A t1, t2 \in BatchTasks :
            ( /\ t1 # t2
              /\ W.pc[t1] = "done" /\ W.pc[t2] = "done"
              /\ W.outcome[t1] # "error" /\ W.outcome[t2] # "error"
              /\ W.loc[t1].email # NoneValue
              /\ W.loc[t1].email = W.loc[t2].email
              /\ \A row \in W.table0 :
                     /\ row.email # W.loc[t1].email
                     /\ row.git_username \notin {LoginOf(t1), LoginOf(t2)} )
            => /\ {W.outcome[t1], W.outcome[t2]} = {"saved", "exists"}
               /\ Cardinality({row \in W.table :
                                   row.email = W.loc[t1].email}) = 1
               /\ W.commits = 1
               /\ W.stats = [saved |-> 1, errors |-> 0, skipped_no_email |-> 0]

\* both tasks awaited the provider before they resolved to the same email;
\* the task started second was saved
C22_Witness ==
    LET W == worlds["plain"]
    IN  /\ BatchComplete(W)
        /\ W.table0 = {}
        /\ W.loc["p1"].email = "e1" /\ W.loc["p2"].email = "e1"
        /\ W.loc["p1"].calls = 2 /\ W.loc["p2"].calls = 1
        /\ W.outcome["p1"] = "exists" /\ W.outcome["p2"] = "saved"

\* C23: a commit refused by the uniqueness constraint is rolled back and the
\* task ends as a skip: the table and the statistics saved, errors and the
\* per-country tally of every instance stay as they were, the task returns
\* to the event loop without an exception, and no other task is disturbed.
C23_IntegrityErrorIsSkip ==
    [][\A t \in Tasks :
           ( /\ taskPc[t] = "insert"
             /\ taskPc'[t] # "insert"
             /\ \E row \in users_table :
                    row.git_username = taskUser[t].git_username )
           => /\ users_table' = users_table
              /\ stats' = stats
              /\ taskPc'[t] = "idle"
              /\ taskResult'[t] = "integrity_error"
              /\ \A o \in Tasks \ {t} :
                     /\ taskPc'[o] = taskPc[o]
                     /\ taskResult'[o] = taskResult[o]]_vars

\* the commit of instance B was refused after instance A saved the handle,
\* and a task of A is still on its way
C23_Witness ==
    /\ taskResult["b1"] = "integrity_error"
    /\ stats["A"].saved = 1 /\ stats["B"].saved = 0
    /\ \E t \in {"a1", "a2"} : taskPc[t] = "precheck"

\* C24: when mark_rate_limited (or the switch retried after the sleep) selects
\* a credential, it is the first available one met when scanning cyclically
\* from the index after the previously current one, which need not be the
\* lowest available index; the previously current credential is selected
\* again only if no other credential is available.
C24_RoundRobinFromCurrent ==
    [][\A c \in Callers :
           (pc[c] \in {"mark", "wait"} /\ pc'[c] \notin {"mark", "wait"})
           => LET rlt == IF pc[c] = "mark"
                         THEN RecordReset(rate_limited_tokens,
                                          current_token_index, reset[c])
                         ELSE rate_limited_tokens
                  available == AvailableIndices(rlt)
                  Step(k) == (current_token_index + k) % NumTokens
              IN  /\ current_token_index' \in available
                  /\ \E k \in 1 .. NumTokens :
                         /\ current_token_index' = Step(k)
                         /\ \A j \in 1 .. (k - 1) : Step(j) \notin available
                  /\ current_token_index' = current_token_index
                         => available = {current_token_index}]_vars

\* the credential after the rate-limited credential 1 was selected although
\* credential 0 was available too
C24_Witness ==
    /\ current_token_index = 2
    /\ 1 \in DOMAIN rate_limited_tokens
    /\ 0 \notin DOMAIN rate_limited_tokens
    /\ 2 \notin DOMAIN rate_limited_tokens

\* C25: get_active_github_users(since) returns ([], None) exactly when the
\* response body is an empty list, no list or not parsable; in every other
\* case it returns the users of the page and since + 100, whatever the number
\* and the IDs of the users of the page.
C25_NextPageResult ==
    [][(runPc = "fetch" /\ pageLens' # pageLens)
       => LET body == ListingPage(listing, since)
              endOfStream == badPayload' \/ body = << >>
          IN  /\ endOfStream => users' = << >> /\ next_since' = NoCursor
              /\ ~endOfStream => users' = body /\ next_since' = since + 100]_vars

\* a full page whose last ID lies beyond the next cursor, and a later page
\* of fewer users
C25_Witness ==
    /\ runPc = "batch"
    /\ Len(pageLens) = 2
    /\ pageLens[1] = FullPage
    /\ 0 < Len(users) /\ Len(users) < FullPage
    /\ users[Len(users)] > next_since
    /\ next_since = since + 100

\* C26: with an LLM-family provider configured, get_country_code falls back
\* to a geocoding provider: for a location text that misses the fast path the
\* geocoder is asked, and its country code is what the task goes on with.
C26_LLMFallsBackToGeocoder ==
    LET W == worlds["plain"]
    IN  \A t \in BatchTasks :
            ( /\ LOCATION_PROVIDER \in LLMProviders
              /\ W.pc[t] = "done"
              /\ W.loc[t].ccLooked
              /\ ~FastPath(W.loc[t].location) )
            => \/ W.loc[t].calls >= 1
               \/ W.loc[t].country_code \in CountryCodes

\* C27: get_country_code takes the gazetteer fast path (it returns "" and no
\* provider is called) exactly when a gazetteer entry occurs in the location
\* text as a whole word, case-insensitively; an entry that is only a part of
\* a longer word does not trigger it.
C27_FastPathOnWholeWord ==
    LET W == worlds["plain"]
    IN  \A t \in BatchTasks :
            W.loc[t].ccLooked
            => LET took == W.loc[t].country_code = "" /\ W.loc[t].calls = 0
                   wholeWord ==
                       \E word \in Words(Lower(W.loc[t].location)) :
                           word \in US_KEYWORDS \cup US_STATES \cup US_STATE_CODES
               IN  took <=> wholeWord

\* C28: for a location text that misses the fast path, get_country_code
\* calls the provider at most retries times and stops at the first call that
\* yields a code; when every call fails it returns None without raising: the
\* task goes on to the email check and the persistence step with an
\* unresolved country, and no task ends in an error that no other step raised.
C28_BoundedProviderCalls ==
    LET W == worlds["plain"]
    IN  \A t \in BatchTasks :
            /\ W.outcome[t] = "error" => W.fault[t] # "none"
            /\ (W.loc[t].ccLooked /\ ~FastPath(W.loc[t].location))
               => LET l == W.loc[t]
                  IN  /\ l.calls <= retries
                      /\ W.pc[t] = "geocoding"
                             => l.country_code = NoneValue /\ l.calls < retries
                      /\ l.country_code # NoneValue
                             => /\ l.country_code \in CountryCodes
                                /\ l.calls >= 1
                                /\ W.pc[t] = "done"
                      /\ (W.pc[t] = "done" /\ l.country_code = NoneValue)
                             => /\ LOCATION_PROVIDER \in GeocodingProviders
                                       => l.calls = retries
                                /\ W.outcome[t] \in
                                       {"saved", "exists", "skipped_no_email"}
                                /\ W.outcome[t] = "saved"
                                       => RowOf(W, t).country = NoneValue

\* both calls of the geocoder failed and the entity was saved without country
C28_Witness ==
    LET W == worlds["plain"]
    IN  /\ LOCATION_PROVIDER = "nominatim"
        /\ W.outcome["p2"] = "saved"
        /\ W.loc["p2"].location = Oslo
        /\ W.loc["p2"].calls = retries
        /\ RowOf(W, "p2").country = NoneValue
        /\ W.stats.errors = 0

(***************************************************************************)
(* Properties of the commit-derived email fallback (checked under          *)
(* SpecScan).                                                              *)
(***************************************************************************)

\* C29: get_email_from_commits returns the author name and email of the
\* first commit, in listing order over the first 5 repositories and the first
\* 10 commits of each, whose author email is an address outside the
\* platform's mail domain; it returns None when that window holds no such
\* commit; repositories and commits outside the window never contribute.
C29_FirstEmailInWindow ==
    scanPc = "returned" =>
        LET repos == IF repos_res.answer = "ok" THEN repos_res.repos ELSE << >>
            Window ==
                {p \in (1 .. 5) \X (1 .. 10) :
                    /\ p[1] <= Len(repos)
                    /\ ~Skipped(repos[p[1]])
                    /\ p[2] <= Len(repos[p[1]].commits)}
            Hits == {p \in Window : Accepted(repos[p[1]].commits[p[2]].email)}
            Before(p, q) == p[1] < q[1] \/ (p[1] = q[1] /\ p[2] <= q[2])
        IN  IF Hits = {}
            THEN fallback = NotFound
            ELSE LET first == CHOOSE p \in Hits : \A q \in Hits : Before(p, q)
                     commit == repos[first[1]].commits[first[2]]
                 IN  fallback = <<commit.name, commit.email>>

\* the scan passed over a skipped repository and over platform addresses
\* and took the author of the last commit of the window, while accepted
\* addresses lay in the repository and the commit beyond the window
C29_Witness ==
    /\ scanPc = "returned"
    /\ repos_res.answer = "ok"
    /\ Len(repos_res.repos) = NumRepos
    /\ repos_res.repos[RepoWindow].commits[CommitWindow].email = Address1
    /\ repos_res.repos[RepoWindow].commits[NumCommits].email = Address2
    /\ repos_res.repos[1].commits[1].email \in Passed \ {<< >>, <<"root">>}
    /\ fallback = <<"ann", Address1>>

(***************************************************************************)
(* The checkpoint across runs (checked under Spec).                        *)
(***************************************************************************)

\* C30: over runs that follow one another, the persisted checkpoint never
\* decreases and is never removed, and the cursor a run loads is the value
\* persisted last before it, 0 if no checkpoint was ever persisted.
C30_CheckpointMonotone ==
    [][/\ \A v \in fetch_state : \E w \in fetch_state' : w >= v
       /\ (runPc = "load" /\ runPc' = "fetch")
          => /\ fetch_state = prevFetchState
             /\ fetch_state = {} => startSince' = 0
             /\ \A v \in fetch_state : startSince' = v
             /\ since' = startSince']_vars

\* a first run that was cut short left the checkpoint 100; the second run
\* started from it and moved the checkpoint on
C30_Witness ==
    /\ runCount = 2
    /\ Len(listing) = 237
    /\ prevFetchState = {100}
    /\ startSince = 100
    /\ fetch_state = {200}

(***************************************************************************)
(* Termination of safe_get (checked under SpecClientLive).                 *)
(***************************************************************************)

\* the client under a clock that advances and a caller that keeps running
SpecClientLive ==
    /\ InitSpecClient
    /\ [][NextClient]_vars
    /\ WF_vars(Tick)
    /\ \A c \in Callers : WF_vars(SafeGetStep(c))

\* C31: every call of safe_get ends, by returning a response or by raising,
\* and has made at most max_retries HTTP requests, whatever rate-limit
\* responses, other responses and exceptions the upstream produces.
C31_SafeGetTerminates ==
    /\ \A c \in Callers :
           (pc[c] = "headers") ~> (pc[c] \in {"returned", "raised"})
    /\ [](\A c \in Callers :
            /\ nRequests[c] <= max_retries
            /\ pc[c] \in {"returned", "raised"} => nRequests[c] >= 1)

\* a call made three requests, answered by two rate-limit responses and one
\* exception, waited for a credential in between, and has raised
C31_Witness ==
    \E c \in Callers :
        /\ pc[c] = "raised"
        /\ nRequests[c] = max_retries
        /\ nRateLimited[c] = 2
        /\ nExceptions[c] = 1
        /\ waited[c]

(***************************************************************************)
(* The credential pool under two calling threads (checked under SpecPair). *)
(***************************************************************************)

C33_OverlapKeepsCheckpointMonotone ==
    [][\A v \in stored : \A w \in stored' : w >= v]_vars

(***************************************************************************)
(* The statistics of a run (checked under Spec).                           *)
(***************************************************************************)

\* C34: at the end of every run the counters saved, skipped_no_email and
\* errors together count no more than the entities fetched (each entity is
\* counted in at most one of them), and the per-country tally sums to saved.
C34_CountersWithinFetched ==
    runPc = "done" =>
        LET s == stats[RunInstance]
        IN  /\ s.saved + s.skipped_no_email + s.errors <= s.total_fetched
            /\ s.countries = s.saved

====
